---- MODULE Spec2Model ----
(***************************************************************************)
(* Model of VecEnvBase (omni.isaac.gym.vec_env/vec_env_base.py): the       *)
(* adapter that binds a task to a World and forwards step / reset /        *)
(* render / close / seed to them.                                          *)
(*                                                                         *)
(* The World, the task, the SimulationApp, the USD stage, the extension    *)
(* manager and gym.Env are collaborators of the adapter.  Each call the    *)
(* adapter makes on one of them is recorded as an event in the log of the  *)
(* current call, and each such call either returns or raises: which of     *)
(* the two is an input of the action (the parameter f names the call that  *)
(* raises, "none" when none does).  An attribute that was never assigned   *)
(* is 0; reading it raises AttributeError before any call is issued.       *)
(***************************************************************************)
EXTENDS Integers, Sequences, FiniteSets, TLC

\* ---------------------------------------------------------------- bounds
MaxCalls == 3            \* calls made on one adapter instance

\* ---------------------------------------------------------------- inputs
Tasks    == {1, 2}
ActionBuffers == {"a0", "a1"}
Modes    == {"human", "rgb_array"}
SeedArgs == {-1, 5}
SeedResults == {7}

\* sim_params: None, or a dict that may hold the two keys set_task reads
NoSimParams ==
    [isNone |-> TRUE, use_gpu_pipeline |-> "absent", enable_viewport |-> "absent"]

SimParamsDict(gpu, viewport) ==
    [isNone |-> FALSE, use_gpu_pipeline |-> gpu, enable_viewport |-> viewport]

\* the (backend, sim_params) pairs handed to set_task
SetTaskArgs ==
    { << "numpy", NoSimParams >>,
      << "numpy", SimParamsDict("absent", "absent") >>,
      << "torch", SimParamsDict("True", "absent") >>,
      << "torch", SimParamsDict("False", "False") >>,
      << "numpy", SimParamsDict("absent", "True") >> }

\* the three attributes set_task reads from the task object
TaskNumEnvs(t)  == 16 * t
TaskObsSpace(t) == 100 + t
TaskActSpace(t) == 200 + t

VARIABLES
    _simulation_app,     \* "running" | "closed"
    _render,             \* BOOLEAN
    sim_frame_count,
    _world,              \* 0 (never assigned) or the id of a World object
    _task,               \* 0 (never assigned) or a task
    _num_envs,           \* 0 (never assigned) or the cached count
    observation_space,   \* 0 (gym.Env's class attribute None) or a space
    action_space,        \* 0 (gym.Env's class attribute None) or a space
    worldsCreated,       \* World objects constructed so far (ids 1..n)
    appLaunches,         \* SimulationApp objects constructed
    hist,                \* history: counters over the calls made so far
    lastSetTask,         \* history: the most recent set_task call
    lastCall             \* the most recent call: op, arg, outcome, ret, log

vars == << _simulation_app, _render, sim_frame_count, _world, _task, _num_envs,
           observation_space, action_space, worldsCreated, appLaunches, hist,
           lastSetTask, lastCall >>

\* ---------------------------------------------------------------- events
\* one call issued to a collaborator (or the counter increment)
\* w, t: the World / the task the call is made on or passed (0: neither)
Ev(e, w, t, a, b) == [ev |-> e, world |-> w, task |-> t, arg |-> a, arg2 |-> b]

PyBool(b) == IF b THEN "True" ELSE "False"

\* what a task hook returns: the hook, the task, and how many world ticks
\* had completed when it was asked
Query(h, t, ticks) == [hook |-> h, task |-> t, time |-> ticks]

Prefix(full, stop, issued) ==
    IF stop > Len(full) THEN full
    ELSE SubSeq(full, 1, IF issued THEN stop ELSE stop - 1)

Count(log, e) == Cardinality({i \in 1..Len(log) : log[i].ev = e})

\* ------------------------------------------------------------- __init__
Init ==
    /\ _simulation_app = "running"
    /\ _render \in BOOLEAN            \* not headless
    /\ sim_frame_count = 0
    /\ _world = 0
    /\ _task = 0
    /\ _num_envs = 0
    /\ observation_space = 0
    /\ action_space = 0
    /\ worldsCreated = 0
    /\ appLaunches = 1
    /\ hist = [calls |-> 0, ticksIssued |-> 0, ticksDone |-> 0,
               stepTicksDone |-> 0, stepsReturned |-> 0, stepsLateFault |-> 0,
               resetTicksDone |-> 0, rendersDone |-> 0, setTaskReturns |-> 0]
    /\ lastSetTask = [task |-> 0, world |-> 0, returned |-> FALSE]
    /\ lastCall = [op |-> "__init__", arg |-> PyBool(~_render), outcome |-> "ok",
                   ret |-> "None", log |-> << >>]

\* ----------------------------------------------------------------- step
StepFaults == {"none", "pre_physics_step", "world.step", "get_observations",
               "calculate_metrics", "is_done"}

\* variant: the observations are asked for before the world tick
StepStatementsQueryFirst(t, w, r, a) ==
    << Ev("task.pre_physics_step", 0, t, a, ""),
       Ev("task.get_observations", 0, t, "", ""),
       Ev("world.step", w, 0, PyBool(r), ""),
       Ev("sim_frame_count += 1", 0, 0, "", ""),
       Ev("task.calculate_metrics", 0, t, "", ""),
       Ev("task.is_done", 0, t, "", "") >>

\* the six statements of step, in program order
StepStatements(t, w, r, a) ==
    << Ev("task.pre_physics_step", 0, t, a, ""),
       Ev("world.step", w, 0, PyBool(r), ""),
       Ev("sim_frame_count += 1", 0, 0, "", ""),
       Ev("task.get_observations", 0, t, "", ""),
       Ev("task.calculate_metrics", 0, t, "", ""),
       Ev("task.is_done", 0, t, "", "") >>

\* index of the statement of step that raises (7: none does)
StepStop(t, w, f) ==
    IF t = 0 \/ f = "pre_physics_step" THEN 1
    ELSE IF w = 0 \/ f = "world.step" THEN 2
    ELSE IF f = "get_observations" THEN 4
    ELSE IF f = "calculate_metrics" THEN 5
    ELSE IF f = "is_done" THEN 6
    ELSE 7

\* was the raising statement a call that reached the collaborator?
StepIssued(t, w, stop) ==
    IF stop = 1 THEN t # 0 ELSE IF stop = 2 THEN w # 0 ELSE TRUE

StepOutcome(t, w, stop) ==
    IF stop = 7 THEN "ok"
    ELSE IF ~StepIssued(t, w, stop) THEN "AttributeError"
    ELSE "fault"

\* variant: the increment is left out
StepFrameCountSkipped(count, stop) == count

\* variant: the increment is made before the world tick
StepFrameCountBeforeTick(count, stop) == IF stop > 1 THEN count + 1 ELSE count

StepFrameCount(count, stop) == IF stop > 3 THEN count + 1 ELSE count

StepTicks(ticks, stop) == IF stop > 2 THEN ticks + 1 ELSE ticks

\* the 4-tuple (observations, rewards, dones, info)
StepReturn(t, ticks) ==
    << Query("get_observations", t, ticks),
       Query("calculate_metrics", t, ticks),
       Query("is_done", t, ticks),
       << >> >>

Step(a, f) ==
    /\ hist.calls < MaxCalls
    /\ \E stop \in {StepStop(_task, _world, f)} :
       \E issued \in {StepIssued(_task, _world, stop)} :
       \E ticks \in {StepTicks(hist.ticksDone, stop)} :
        /\ sim_frame_count' = StepFrameCount(sim_frame_count, stop)
        /\ hist' = [hist EXCEPT
                      !.calls = @ + 1,
                      !.ticksIssued = IF stop > 2 \/ (stop = 2 /\ issued) THEN @ + 1 ELSE @,
                      !.ticksDone = ticks,
                      !.stepTicksDone = StepTicks(@, stop),
                      !.stepsReturned = IF stop = 7 THEN @ + 1 ELSE @,
                      !.stepsLateFault = IF stop \in 4..6 THEN @ + 1 ELSE @]
        /\ lastCall' = [op |-> "step", arg |-> a,
                        outcome |-> StepOutcome(_task, _world, stop),
                        ret |-> IF stop = 7 THEN StepReturn(_task, ticks) ELSE << >>,
                        log |-> Prefix(StepStatements(_task, _world, _render, a), stop, issued)]
        /\ UNCHANGED << _simulation_app, _render, _world, _task, _num_envs,
                        observation_space, action_space, worldsCreated, appLaunches,
                        lastSetTask >>

\* ---------------------------------------------------------------- reset
ResetFaults == {"none", "reset", "world.step", "get_observations"}

\* variant: the world tick is left out
ResetStatementsNoTick(t, w, r) ==
    << Ev("task.reset", 0, t, "", ""),
       Ev("task.get_observations", 0, t, "", "") >>

\* the three statements of reset, in program order
ResetStatements(t, w, r) ==
    << Ev("task.reset", 0, t, "", ""),
       Ev("world.step", w, 0, PyBool(r), ""),
       Ev("task.get_observations", 0, t, "", "") >>

\* index of the statement of reset that raises (4: none does)
ResetStop(t, w, f) ==
    IF t = 0 \/ f = "reset" THEN 1
    ELSE IF w = 0 \/ f = "world.step" THEN 2
    ELSE IF f = "get_observations" THEN 3
    ELSE 4

ResetIssued(t, w, stop) ==
    IF stop = 1 THEN t # 0 ELSE IF stop = 2 THEN w # 0 ELSE TRUE

ResetOutcome(t, w, stop) ==
    IF stop = 4 THEN "ok"
    ELSE IF ~ResetIssued(t, w, stop) THEN "AttributeError"
    ELSE "fault"

ResetTicks(ticks, stop) == IF stop > 2 THEN ticks + 1 ELSE ticks

\* variant: an episode reset restarts the frame counter
ResetFrameCountZero(count) == 0

ResetFrameCount(count) == count

\* reset returns the observations alone
ResetReturn(t, ticks) == Query("get_observations", t, ticks)

Reset(f) ==
    /\ hist.calls < MaxCalls
    /\ \E stop \in {ResetStop(_task, _world, f)} :
       \E issued \in {ResetIssued(_task, _world, stop)} :
       \E ticks \in {ResetTicks(hist.ticksDone, stop)} :
        /\ sim_frame_count' = ResetFrameCount(sim_frame_count)
        /\ hist' = [hist EXCEPT
                      !.calls = @ + 1,
                      !.ticksIssued = IF stop > 2 \/ (stop = 2 /\ issued) THEN @ + 1 ELSE @,
                      !.ticksDone = ticks,
                      !.resetTicksDone = ResetTicks(@, stop)]
        /\ lastCall' = [op |-> "reset", arg |-> "",
                        outcome |-> ResetOutcome(_task, _world, stop),
                        ret |-> IF stop = 4 THEN ResetReturn(_task, ticks) ELSE << >>,
                        log |-> Prefix(ResetStatements(_task, _world, _render), stop, issued)]
        /\ UNCHANGED << _simulation_app, _render, _world, _task, _num_envs,
                        observation_space, action_space, worldsCreated, appLaunches,
                        lastSetTask >>

\* ------------------------------------------------------------- set_task
SetTaskFaults == {"none", "World", "world.add_task", "task.num_envs",
                  "task.observation_space", "task.action_space",
                  "set_extension_enabled_immediate", "world.reset"}

\* Python truth of sim_params: None and the empty dict are false
Truthy(sp) ==
    /\ ~sp.isNone
    /\ (sp.use_gpu_pipeline # "absent" \/ sp.enable_viewport # "absent")

Device(sp) ==
    IF Truthy(sp) /\ sp.use_gpu_pipeline # "absent" /\ sp.use_gpu_pipeline = "True"
    THEN "cuda" ELSE "cpu"

\* is the viewport extension switched off?
DisablesViewport(sp) ==
    Truthy(sp) /\ sp.enable_viewport # "absent" /\ ~(sp.enable_viewport = "True")

\* the statements of set_task that this call runs, in program order;
\* w is the World the first of them constructs
SetTaskStatements(w, task, backend, sp, init_sim) ==
    << Ev("World", w, 0, backend, Device(sp)),
       Ev("world.add_task", w, task, "", ""),
       Ev("task.num_envs", 0, task, "", ""),
       Ev("task.observation_space", 0, task, "", ""),
       Ev("task.action_space", 0, task, "", "") >>
    \o (IF DisablesViewport(sp)
        THEN << Ev("set_extension_enabled_immediate", 0, 0,
                   "omni.kit.window.viewport", "False") >>
        ELSE << >>)
    \o (IF init_sim THEN << Ev("world.reset", w, 0, "", "") >> ELSE << >>)

\* index of the statement that raises (one past the last: none does)
SetTaskStop(stmts, f) ==
    IF \E i \in 1..Len(stmts) : stmts[i].ev = f
    THEN CHOOSE i \in 1..Len(stmts) : stmts[i].ev = f
    ELSE Len(stmts) + 1

\* variant: a World already bound is kept
SetTaskWorldReused(old, w, stop) == IF stop > 1 /\ old = 0 THEN w ELSE old

\* variant: the count is cached on the first bind only
SetTaskNumEnvsFirstOnly(old, task, stop) ==
    IF stop > 3 /\ old = 0 THEN TaskNumEnvs(task) ELSE old

\* the attributes assigned once statement k has completed
SetTaskWorld(old, w, stop)     == IF stop > 1 THEN w ELSE old
SetTaskTask(old, task, stop)   == IF stop > 2 THEN task ELSE old
SetTaskNumEnvs(old, task, stop)  == IF stop > 3 THEN TaskNumEnvs(task) ELSE old
SetTaskObsSpace(old, task, stop) == IF stop > 4 THEN TaskObsSpace(task) ELSE old
SetTaskActSpace(old, task, stop) == IF stop > 5 THEN TaskActSpace(task) ELSE old

\* set_task launches no SimulationApp
SetTaskLaunches(n) == n

SetTask(task, backend, sp, init_sim, f) ==
    /\ hist.calls < MaxCalls
    /\ \E w \in {worldsCreated + 1} :
       \E stmts \in {SetTaskStatements(w, task, backend, sp, init_sim)} :
       \E stop \in {SetTaskStop(stmts, f)} :
       \E returned \in {stop > Len(stmts)} :
        /\ f = "none" \/ ~returned
        /\ worldsCreated' = IF stop > 1 THEN w ELSE worldsCreated
        /\ _world' = SetTaskWorld(_world, w, stop)
        /\ _task' = SetTaskTask(_task, task, stop)
        /\ _num_envs' = SetTaskNumEnvs(_num_envs, task, stop)
        /\ observation_space' = SetTaskObsSpace(observation_space, task, stop)
        /\ action_space' = SetTaskActSpace(action_space, task, stop)
        /\ appLaunches' = SetTaskLaunches(appLaunches)
        /\ hist' = [hist EXCEPT !.calls = @ + 1,
                                 !.setTaskReturns = IF returned THEN @ + 1 ELSE @]
        /\ lastSetTask' = [task |-> task, world |-> IF stop > 1 THEN w ELSE 0,
                           returned |-> returned]
        /\ lastCall' = [op |-> "set_task", arg |-> "",
                        outcome |-> IF returned THEN "ok" ELSE "fault",
                        ret |-> "None",
                        log |-> Prefix(stmts, stop, TRUE)]
        /\ UNCHANGED << _simulation_app, _render, sim_frame_count >>

\* --------------------------------------------------------------- render
RenderFaults == {"none", "world.render", "gym.Env.render"}

\* variant: the mode is not looked at
RenderStatementsAnyMode(w, mode) == << Ev("world.render", w, 0, "", "") >>

\* the one call render makes: on the World for "human", else on gym.Env
RenderStatements(w, mode) ==
    IF mode = "human" THEN << Ev("world.render", w, 0, "", "") >>
    ELSE << Ev("gym.Env.render", 0, 0, mode, "") >>

\* variant: a World that was never bound renders as if it were there
RenderOutcomeUnchecked(w, mode, f) ==
    IF mode = "human"
    THEN IF f = "world.render" THEN "fault" ELSE "ok"
    ELSE IF f = "gym.Env.render" THEN "fault" ELSE "ok"

RenderOutcome(w, mode, f) ==
    IF mode = "human"
    THEN IF w = 0 THEN "AttributeError"
         ELSE IF f = "world.render" THEN "fault" ELSE "ok"
    ELSE IF f = "gym.Env.render" THEN "fault" ELSE "ok"

Render(mode, f) ==
    /\ hist.calls < MaxCalls
    /\ \E outcome \in {RenderOutcome(_world, mode, f)} :
        /\ hist' = [hist EXCEPT
                      !.calls = @ + 1,
                      !.rendersDone = IF mode = "human" /\ outcome = "ok" THEN @ + 1 ELSE @]
        /\ lastCall' = [op |-> "render", arg |-> mode, outcome |-> outcome,
                        ret |-> "None",
                        log |-> IF outcome = "AttributeError" THEN << >>
                                ELSE RenderStatements(_world, mode)]
        /\ UNCHANGED << _simulation_app, _render, sim_frame_count, _world, _task,
                        _num_envs, observation_space, action_space, worldsCreated,
                        appLaunches, lastSetTask >>

\* ---------------------------------------------------------------- close
CloseFaults == {"none", "Clear", "close"}

\* the two statements of close, in program order
CloseStatements ==
    << Ev("stage.GetRootLayer().Clear", 0, 0, "", ""),
       Ev("simulation_app.close", 0, 0, "", "") >>

CloseStop(f) == IF f = "Clear" THEN 1 ELSE IF f = "close" THEN 2 ELSE 3

\* variant: the SimulationApp is not closed
CloseAppSkipped(app, stop) == app

\* the SimulationApp after close: terminated once its close has returned
CloseApp(app, stop) == IF stop > 2 THEN "closed" ELSE app

Close(f) ==
    /\ hist.calls < MaxCalls
    /\ \E stop \in {CloseStop(f)} :
        /\ _simulation_app' = CloseApp(_simulation_app, stop)
        /\ hist' = [hist EXCEPT !.calls = @ + 1]
        /\ lastCall' = [op |-> "close", arg |-> "",
                        outcome |-> IF stop = 3 THEN "ok" ELSE "fault",
                        ret |-> "None",
                        log |-> Prefix(CloseStatements, stop, TRUE)]
        /\ UNCHANGED << _render, sim_frame_count, _world, _task, _num_envs,
                        observation_space, action_space, worldsCreated, appLaunches,
                        lastSetTask >>

\* ----------------------------------------------------------------- seed
\* set_seed draws a seed when handed -1 and returns the seed it applied
SetSeed(seed, drawn) == IF seed = -1 THEN drawn ELSE seed

SeedFaults == {"none", "set_seed"}

Seed(seed, drawn, f) ==
    /\ hist.calls < MaxCalls
    /\ hist' = [hist EXCEPT !.calls = @ + 1]
    /\ lastCall' = [op |-> "seed", arg |-> seed,
                    outcome |-> IF f = "set_seed" THEN "fault" ELSE "ok",
                    ret |-> IF f = "set_seed" THEN -1 ELSE SetSeed(seed, drawn),
                    log |-> << Ev("set_seed", 0, 0, "", "") >>]
    /\ UNCHANGED << _simulation_app, _render, sim_frame_count, _world, _task,
                    _num_envs, observation_space, action_space, worldsCreated,
                    appLaunches, lastSetTask >>

\* ------------------------------------------------------------- num_envs
NumEnvsOutcome(n) == IF n = 0 THEN "AttributeError" ELSE "ok"

NumEnvs ==
    /\ hist.calls < MaxCalls
    /\ hist' = [hist EXCEPT !.calls = @ + 1]
    /\ lastCall' = [op |-> "num_envs", arg |-> "",
                    outcome |-> NumEnvsOutcome(_num_envs),
                    ret |-> _num_envs, log |-> << >>]
    /\ UNCHANGED << _simulation_app, _render, sim_frame_count, _world, _task,
                    _num_envs, observation_space, action_space, worldsCreated,
                    appLaunches, lastSetTask >>

Next ==
    \/ \E a \in ActionBuffers, f \in StepFaults : Step(a, f)
    \/ \E f \in ResetFaults : Reset(f)
    \/ \E m \in Modes, f \in RenderFaults : Render(m, f)
    \/ \E f \in CloseFaults : Close(f)
    \/ \E s \in SeedArgs, d \in SeedResults, f \in SeedFaults : Seed(s, d, f)
    \/ NumEnvs
    \/ \E t \in Tasks, c \in SetTaskArgs, i \in BOOLEAN, f \in SetTaskFaults :
          SetTask(t, c[1], c[2], i, f)

Spec == Init /\ [][Next]_vars
\* ====================================================================
\* Properties
\* ====================================================================
EventNames(log) == [i \in 1..Len(log) |-> log[i].ev]

StepOrder ==
    << "task.pre_physics_step", "world.step", "sim_frame_count += 1",
       "task.get_observations", "task.calculate_metrics", "task.is_done" >>

ResetOrder == << "task.reset", "world.step", "task.get_observations" >>

TaskHooks == {"task.pre_physics_step", "task.get_observations",
              "task.calculate_metrics", "task.is_done", "task.reset"}

IsPrefix(p, q) == Len(p) <= Len(q) /\ p = SubSeq(q, 1, Len(p))

Returned(op) == lastCall.op = op /\ lastCall.outcome = "ok"

\* the call of the collaborator that raised in the last call ("" if none)
FaultAt ==
    IF lastCall.outcome = "fault" /\ Len(lastCall.log) > 0
    THEN lastCall.log[Len(lastCall.log)].ev ELSE ""

\* C1: once set_task(task) has returned, and until set_task is called
\* again, num_envs, observation_space and action_space are the values the
\* task declares, whatever step, reset, render, seed calls follow; a read
\* of num_envs returns the task's count.
C1_SpacesFollowTask ==
    lastSetTask.returned =>
        /\ _num_envs = TaskNumEnvs(lastSetTask.task)
        /\ observation_space = TaskObsSpace(lastSetTask.task)
        /\ action_space = TaskActSpace(lastSetTask.task)
        /\ lastCall.op = "num_envs" =>
               /\ lastCall.outcome = "ok"
               /\ lastCall.ret = TaskNumEnvs(lastSetTask.task)

\* a rebind to task 2 has returned and num_envs is read
C1_Witness ==
    /\ lastSetTask.returned
    /\ lastSetTask.task = 2
    /\ hist.setTaskReturns = 2
    /\ lastCall.op = "num_envs"
    /\ lastCall.ret = 32

\* C2 as stated: the counter starts at 0, a step that returns has made
\* exactly one increment, and the counter equals the number of step calls
\* that have returned.
C2_Original ==
    /\ hist.calls = 0 => sim_frame_count = 0
    /\ Returned("step") => Count(lastCall.log, "sim_frame_count += 1") = 1
    /\ sim_frame_count = hist.stepsReturned

\* C2 amended: the counter starts at 0, every step that returns raises it
\* by exactly 1 whatever the actions, and it equals the number of step
\* calls that returned plus the number that raised after their world tick
\* (so it is n after n returned calls when no step raised after its tick).
C2_FrameCountPerStep ==
    /\ [](hist.calls = 0 => sim_frame_count = 0)
    /\ [][(lastCall'.op = "step" /\ lastCall'.outcome = "ok")
            => sim_frame_count' = sim_frame_count + 1]_vars
    /\ [](sim_frame_count = hist.stepsReturned + hist.stepsLateFault)
    /\ [](sim_frame_count >= hist.stepsReturned)

\* one step has returned and one has raised in a query after its tick
C2_Witness ==
    /\ hist.stepsReturned = 1
    /\ hist.stepsLateFault = 1
    /\ sim_frame_count = 2

\* C3: the counter never decreases, and reset, render, set_task, seed and
\* the num_envs read leave it as it was.
C3_FrameCountMonotone ==
    [][/\ sim_frame_count' >= sim_frame_count
       /\ lastCall'.op \in {"reset", "render", "set_task", "seed", "num_envs"}
            => sim_frame_count' = sim_frame_count]_vars

\* a reset has returned after a step and the counter is still positive
C3_Witness ==
    /\ Returned("reset")
    /\ sim_frame_count > 0

\* C4: a step runs pre_physics_step(actions), one world tick, the counter
\* increment, get_observations, calculate_metrics, is_done, in this order
\* (a step that raises has run a prefix of it), on the bound task and
\* World; a step that returns hands back the three results of the queries
\* made after the tick and an empty info mapping.
C4_StepOrder ==
    lastCall.op = "step" =>
        /\ IsPrefix(EventNames(lastCall.log), StepOrder)
        /\ \A i \in 1..Len(lastCall.log) :
              /\ lastCall.log[i].task \in {0, _task}
              /\ lastCall.log[i].world \in {0, _world}
        /\ lastCall.outcome = "ok" =>
              /\ EventNames(lastCall.log) = StepOrder
              /\ lastCall.log[1].task = _task
              /\ lastCall.log[1].arg = lastCall.arg
              /\ lastCall.log[2].world = _world
              /\ lastCall.log[2].arg = PyBool(_render)
              /\ Len(lastCall.ret) = 4
              /\ lastCall.ret[1] =
                   [hook |-> "get_observations", task |-> _task, time |-> hist.ticksDone]
              /\ lastCall.ret[2] =
                   [hook |-> "calculate_metrics", task |-> _task, time |-> hist.ticksDone]
              /\ lastCall.ret[3] =
                   [hook |-> "is_done", task |-> _task, time |-> hist.ticksDone]
              /\ lastCall.ret[4] = << >>

\* a step has returned after a reset: the second tick of the World
C4_Witness ==
    /\ Returned("step")
    /\ hist.ticksDone = 2
    /\ sim_frame_count = 1

\* C5: a reset that returns has called the task's reset hook once, then
\* ticked the World once, then asked the task for its observations once,
\* and returns those observations alone; no reset call reaches
\* pre_physics_step, calculate_metrics or is_done.
C5_Reset ==
    lastCall.op = "reset" =>
        /\ IsPrefix(EventNames(lastCall.log), ResetOrder)
        /\ lastCall.outcome = "ok" =>
              /\ _task # 0 /\ _world # 0
              /\ EventNames(lastCall.log) = ResetOrder
              /\ lastCall.log[1].task = _task
              /\ lastCall.log[2].world = _world
              /\ lastCall.log[2].arg = PyBool(_render)
              /\ lastCall.log[3].task = _task
              /\ lastCall.ret =
                   [hook |-> "get_observations", task |-> _task, time |-> hist.ticksDone]

\* a reset has returned on a rebound adapter
C5_Witness ==
    /\ Returned("reset")
    /\ hist.setTaskReturns = 2
    /\ hist.resetTicksDone = 1

\* C6: render("human") calls the bound World's render once and nothing
\* else; render with any other mode calls gym.Env.render and never the
\* World's render; neither ticks the World nor calls a task hook.
C6_Render ==
    lastCall.op = "render" =>
        /\ (lastCall.arg = "human" /\ _world # 0) =>
              /\ EventNames(lastCall.log) = << "world.render" >>
              /\ lastCall.log[1].world = _world
        /\ lastCall.arg # "human" =>
              /\ Count(lastCall.log, "world.render") = 0
              /\ EventNames(lastCall.log) = << "gym.Env.render" >>
        /\ Count(lastCall.log, "world.step") = 0
        /\ \A i \in 1..Len(lastCall.log) : lastCall.log[i].ev \notin TaskHooks

\* render("rgb_array") has been called on a bound adapter
C6_Witness ==
    /\ lastCall.op = "render"
    /\ lastCall.arg = "rgb_array"
    /\ lastSetTask.returned
    /\ hist.rendersDone = 1

\* C7 as stated: while set_task has never been called, no step, reset or
\* render call (whatever the mode) returns, none reaches a World, and the
\* counter stays 0.
C7_Original ==
    (lastSetTask.task = 0 /\ lastCall.op \in {"step", "reset", "render"}) =>
        /\ lastCall.outcome # "ok"
        /\ Count(lastCall.log, "world.step") = 0
        /\ Count(lastCall.log, "world.render") = 0
        /\ hist.ticksIssued = 0
        /\ hist.rendersDone = 0
        /\ sim_frame_count = 0

\* C7 amended: while set_task has never been called, every step, reset
\* and render("human") call raises AttributeError before it reaches any
\* collaborator; render with another mode makes the one call
\* gym.Env.render and ends as that call does; none of them reaches a
\* World, and the counter stays 0.
C7_UnboundCalls ==
    (lastSetTask.task = 0 /\ lastCall.op \in {"step", "reset", "render"}) =>
        /\ (lastCall.op # "render" \/ lastCall.arg = "human") =>
              /\ lastCall.outcome = "AttributeError"
              /\ lastCall.log = << >>
        /\ (lastCall.op = "render" /\ lastCall.arg # "human") =>
              EventNames(lastCall.log) = << "gym.Env.render" >>
        /\ Count(lastCall.log, "world.step") = 0
        /\ Count(lastCall.log, "world.render") = 0
        /\ hist.ticksIssued = 0
        /\ hist.rendersDone = 0
        /\ sim_frame_count = 0

\* on an adapter that never saw set_task, a step and a reset have been
\* tried and then render("rgb_array") has returned
C7_Witness ==
    /\ lastSetTask.task = 0
    /\ lastCall.op = "render"
    /\ lastCall.arg = "rgb_array"
    /\ lastCall.outcome = "ok"
    /\ hist.calls = 3

\* C8 as stated: once close has returned, no later step, reset, render,
\* set_task or close returns.
C8_Original ==
    [][(_simulation_app = "closed"
        /\ lastCall'.op \in {"step", "reset", "render", "set_task", "close"})
         => lastCall'.outcome # "ok"]_vars

\* C8 amended: a close that returns has cleared the stage's root layer and
\* then closed the SimulationApp; from then on the SimulationApp stays
\* closed and none is launched, whatever is called.  The adapter itself
\* rejects no later call.
C8_ClosedStays ==
    /\ [](Returned("close") =>
            /\ EventNames(lastCall.log) =
                 << "stage.GetRootLayer().Clear", "simulation_app.close" >>
            /\ _simulation_app = "closed")
    /\ [][_simulation_app = "closed" =>
            /\ _simulation_app' = "closed"
            /\ appLaunches' = appLaunches]_vars
    /\ [](appLaunches = 1)

\* a rebind has returned on an adapter whose SimulationApp is closed
C8_Witness ==
    /\ _simulation_app = "closed"
    /\ Returned("set_task")
    /\ hist.setTaskReturns = 2

\* C9: a set_task that returns has constructed a World never seen before
\* and attached its task to it; the adapter is then bound to that World
\* and that task, every later step, reset and render reaches that task and
\* that World only, and no SimulationApp has been launched beyond the
\* first.
C9_Rebind ==
    /\ [](lastSetTask.returned =>
            /\ _task = lastSetTask.task
            /\ _world = lastSetTask.world
            /\ _world = worldsCreated
            /\ appLaunches = 1
            /\ lastCall.op \in {"step", "reset", "render"} =>
                 \A i \in 1..Len(lastCall.log) :
                    /\ lastCall.log[i].task \in {0, lastSetTask.task}
                    /\ lastCall.log[i].world \in {0, lastSetTask.world}
            /\ lastCall.op = "set_task" =>
                 /\ lastCall.log[1].ev = "World"
                 /\ lastCall.log[1].world = _world
                 /\ lastCall.log[2].ev = "world.add_task"
                 /\ lastCall.log[2].world = _world
                 /\ lastCall.log[2].task = _task)
    /\ [][(lastCall'.op = "set_task" /\ lastCall'.outcome = "ok") =>
            /\ _world' > worldsCreated
            /\ _world' # _world
            /\ _simulation_app' = _simulation_app]_vars

\* a step has returned after set_task(1) and then set_task(2) returned
C9_Witness ==
    /\ hist.setTaskReturns = 2
    /\ lastSetTask.returned
    /\ _task = 2
    /\ _world = 2
    /\ Returned("step")

\* C10: a step whose pre_physics_step raises ticks no World and leaves the
\* counter alone; a step whose world tick raises leaves the counter alone
\* with the actions already handed to the task; neither makes a query and
\* both raise.  The counter is the number of step calls whose tick
\* completed, and is below the number of ticks issued once a reset has
\* ticked.
C10_FaultedStep ==
    /\ [][lastCall'.op = "step" =>
            /\ FaultAt' = "task.pre_physics_step" =>
                 /\ sim_frame_count' = sim_frame_count
                 /\ hist'.ticksIssued = hist.ticksIssued
                 /\ Len(lastCall'.log) = 1
            /\ FaultAt' = "world.step" =>
                 /\ sim_frame_count' = sim_frame_count
                 /\ hist'.ticksDone = hist.ticksDone
                 /\ EventNames(lastCall'.log) = << "task.pre_physics_step", "world.step" >>
                 /\ lastCall'.log[1].arg = lastCall'.arg
                 /\ lastCall'.log[1].task = _task]_vars
    /\ [](sim_frame_count = hist.stepTicksDone)
    /\ [](hist.resetTicksDone > 0 => sim_frame_count < hist.ticksIssued)

\* after a reset that ticked, a step raised in its world tick
C10_Witness ==
    /\ lastCall.op = "step"
    /\ FaultAt = "world.step"
    /\ hist.resetTicksDone = 1
    /\ sim_frame_count = 0
====
